---- MODULE Spec2Model ----
(***************************************************************************)
(* Ledger and category-rollup engine of the Nexus backend.                 *)
(*                                                                         *)
(* The state is the content of the SQLite tables funding_sources,          *)
(* categories, entries, allocations, journal_entries and journal_postings. *)
(* Every action is one request (one transaction): the service function of  *)
(* backend/services/funding.py or backend/main.py together with the        *)
(* storage triggers of the migrations that fire on the statements it       *)
(* emits.  A request that raises leaves the tables as they were (rollback) *)
(* and only records its error code in `last`.                              *)
(*                                                                         *)
(* Money: category and entry amounts are integers (whole currency units);  *)
(* allocation and posting amounts are integers in units of 0.0000005, so   *)
(* that ZERO_TOLERANCE = Decimal('0.000001') is 2 and a sum can lie        *)
(* strictly between zero and the tolerance.                                *)
(* A nullable numeric column is << >> (NULL) or <<v>>; a nullable id       *)
(* column is 0 (NULL) or the id.                                           *)
(* path_ids is NULL or the list of ids from the root to the row; the      *)
(* path_names column is written by the same statements from the same      *)
(* traversal and is not kept apart (names are outside the model).          *)
(*                                                                         *)
(* foreign_keys is the connection's PRAGMA foreign_keys (backend/db.py is  *)
(* not part of the sources, so both settings are explored); limits is the  *)
(* size of the explored universe: how many categories, budgets and         *)
(* projects the requests may use.                                          *)
(* in_flight is NULL, or the delete or move request of a session that has  *)
(* passed its checks and not yet written (two-session specification only). *)
(***************************************************************************)
EXTENDS Integers, Sequences, FiniteSets, TLC

VARIABLES funding_sources, categories, entries, allocations,
          journal_entries, journal_postings, foreign_keys, limits, last,
          in_flight

vars == <<funding_sources, categories, entries, allocations,
          journal_entries, journal_postings, foreign_keys, limits, last,
          in_flight>>

treeVars == <<funding_sources, categories>>
ledgerVars == <<entries, allocations, journal_entries, journal_postings>>

(***************************************************************************)
(* Bounds of the model.                                                    *)
(***************************************************************************)
MaxBudgets == 2
MaxCats == 3
MaxScopedCats == 2
MaxAmount == 1
MaxProjects == 2

MaxEntries == 1
MaxAllocs == 2
MaxJournals == 1
MaxPostings == 2
MaxPostingAmount == 3

\* Universes: a deep tree in one budget, a small tree across budgets, the
\* append-only facts over a small tree, the journals over a small tree.
DeepTree ==
    [cats |-> MaxCats, budgets |-> 1, projects |-> 1,
     entries |-> 0, allocs |-> 0, journals |-> 0]
ScopedTree ==
    [cats |-> MaxScopedCats, budgets |-> MaxBudgets, projects |-> 1,
     entries |-> 0, allocs |-> 0, journals |-> 0]
FactsUniverse ==
    [cats |-> MaxScopedCats, budgets |-> 1, projects |-> MaxProjects,
     entries |-> MaxEntries, allocs |-> MaxAllocs, journals |-> 0]
JournalUniverse ==
    [cats |-> 1, budgets |-> 1, projects |-> 1,
     entries |-> MaxEntries, allocs |-> MaxAllocs, journals |-> MaxJournals]
GuardUniverse ==
    [cats |-> MaxCats, budgets |-> 1, projects |-> 1,
     entries |-> MaxEntries, allocs |-> 1, journals |-> 0]
PostingsUniverse ==
    [cats |-> 1, budgets |-> 1, projects |-> 1,
     entries |-> MaxEntries, allocs |-> 1, journals |-> MaxJournals]
ScopeUniverse ==
    [cats |-> MaxScopedCats, budgets |-> MaxBudgets, projects |-> 1,
     entries |-> 0, allocs |-> 0, journals |-> MaxJournals]
CrossTree ==
    [cats |-> MaxCats, budgets |-> MaxBudgets, projects |-> 1,
     entries |-> 0, allocs |-> 0, journals |-> 0]
ConcurrentUniverse ==
    [cats |-> MaxScopedCats, budgets |-> MaxBudgets, projects |-> 1,
     entries |-> MaxEntries, allocs |-> 1, journals |-> 0]

NULL == << >>
Some(v) == <<v>>

BudgetIds == 1..MaxBudgets
CatIds == 1..MaxCats
ProjectIds == 1..MaxProjects
AmountOpt == {NULL} \cup {Some(v) : v \in 0..MaxAmount}
BoolOpt == {NULL, Some(TRUE), Some(FALSE)}

EmptyFn == [x \in {} |-> 0]

Max(S) == CHOOSE x \in S : \A y \in S : y <= x

\* SQLite rowid of the next inserted row of a table without AUTOINCREMENT.
NextId(T) == IF DOMAIN T = {} THEN 1 ELSE Max(DOMAIN T) + 1

Restrict(f, S) == [x \in S |-> f[x]]

\* COALESCE(v, 0) on a nullable numeric.
Coalesce0(v) == IF v = NULL THEN 0 ELSE v[1]

RECURSIVE SumOver(_, _)
SumOver(f, S) ==
    IF S = {} THEN 0
    ELSE LET x == CHOOSE y \in S : TRUE IN f[x] + SumOver(f, S \ {x})

(***************************************************************************)
(* Queries on the categories table.                                        *)
(***************************************************************************)
HasChild(cs, id) == \E c \in DOMAIN cs : cs[c].parent_id = id

ChildCount(cs, id) == Cardinality({c \in DOMAIN cs : cs[c].parent_id = id})

RECURSIVE SubtreeFrom(_, _, _)
SubtreeFrom(cs, frontier, acc) ==
    LET next == {c \in DOMAIN cs : cs[c].parent_id \in frontier} \ acc
    IN IF next = {} THEN acc ELSE SubtreeFrom(cs, next, acc \cup next)

\* WITH RECURSIVE subtree(id): the row itself and all its descendants.
Subtree(cs, id) == IF id \in DOMAIN cs THEN SubtreeFrom(cs, {id}, {id}) ELSE {}

\* _subtree_category_ids
_subtree_category_ids(cs, id) == Subtree(cs, id)

\* SELECT COALESCE(SUM(x.amount_leaf), 0) FROM categories x WHERE x.id IN S
SumAmountLeaf(cs, S) == SumOver([c \in DOMAIN cs |-> Coalesce0(cs[c].amount_leaf)], S)

(***************************************************************************)
(* Storage triggers on categories (migration 20240709_01).  A database    *)
(* value is a record [categories, funding_sources, ok]; ok = FALSE means   *)
(* a statement was aborted and the transaction will be rolled back.        *)
(***************************************************************************)
\* First statement of the three AFTER triggers: leaf flags of one budget.
RefreshLeafFlags(cs, b) ==
    [c \in DOMAIN cs |->
        IF cs[c].budget_id = b
        THEN [cs[c] EXCEPT !.is_leaf = ~HasChild(cs, c),
                           !.amount_leaf = IF ~HasChild(cs, c) THEN @ ELSE NULL]
        ELSE cs[c]]

\* The rollup statement of the triggers left out.
RefreshRollups_skipped(cs, b) == cs

\* Second statement: rollup_amount of every category of one budget.
RefreshRollups(cs, b) ==
    [c \in DOMAIN cs |->
        IF cs[c].budget_id = b
        THEN [cs[c] EXCEPT !.rollup_amount =
                 Some(SumAmountLeaf(cs, {x \in Subtree(cs, c) : cs[x].is_leaf}))]
        ELSE cs[c]]

\* The cache statement without its CASE WHEN is_cost_center branch.
RefreshCache_cost_center_counted(fs, cs, b) ==
    [f \in DOMAIN fs |->
        IF f = b
        THEN [fs[f] EXCEPT !.budget_amount_cache =
                 Some(SumAmountLeaf(cs, {x \in DOMAIN cs :
                          cs[x].budget_id = b /\ cs[x].is_leaf}))]
        ELSE fs[f]]

\* Third statement: budget_amount_cache of the budget.
RefreshCache(fs, cs, b) ==
    [f \in DOMAIN fs |->
        IF f = b
        THEN [fs[f] EXCEPT !.budget_amount_cache =
                 IF fs[f].is_cost_center THEN NULL
                 ELSE Some(SumAmountLeaf(cs, {x \in DOMAIN cs :
                               cs[x].budget_id = b /\ cs[x].is_leaf}))]
        ELSE fs[f]]

RecomputeBudget(db, b) ==
    LET cs1 == RefreshLeafFlags(db.categories, b)
        cs2 == RefreshRollups(cs1, b)
    IN [db EXCEPT !.categories = cs2,
                  !.funding_sources = RefreshCache(db.funding_sources, cs2, b)]

trg_categories_after_insert(db, new) == RecomputeBudget(db, new.budget_id)

trg_categories_after_delete(db, old) == RecomputeBudget(db, old.budget_id)

\* WHERE budget_id IN (COALESCE(NEW.budget_id, OLD.budget_id)): the column is
\* NOT NULL, so only the budget of the new row is recomputed.
trg_categories_after_update(db, old, new) ==
    RecomputeBudget(db, IF new.budget_id # 0 THEN new.budget_id ELSE old.budget_id)

\* The amount guard never firing.
trg_categories_amount_guard_off(cs, id, new) == FALSE

\* BEFORE UPDATE: TRUE when the statement is aborted.
trg_categories_amount_guard(cs, id, new) ==
    new.amount_leaf # NULL /\ HasChild(cs, id)

\* INSERT INTO categories of one row.
SqlInsertCategory(db, id, row) ==
    IF ~db.ok THEN db
    ELSE trg_categories_after_insert(
            [db EXCEPT !.categories = @ @@ (id :> row)], row)

\* UPDATE categories SET ... WHERE id = :id of one row; `row` is the new row.
SqlUpdateCategory(db, id, row) ==
    IF ~db.ok THEN db
    ELSE IF trg_categories_amount_guard(db.categories, id, row)
    THEN [db EXCEPT !.ok = FALSE]
    ELSE trg_categories_after_update(
            [db EXCEPT !.categories = [@ EXCEPT ![id] = row]],
            db.categories[id], row)

\* DELETE FROM categories WHERE id = :id of one row.
SqlDeleteCategory(db, id) ==
    IF ~db.ok THEN db
    ELSE trg_categories_after_delete(
            [db EXCEPT !.categories = Restrict(@, DOMAIN @ \ {id})],
            db.categories[id])

Db == [categories |-> categories, funding_sources |-> funding_sources, ok |-> TRUE]

(***************************************************************************)
(* Budgets (services/funding.py).                                          *)
(***************************************************************************)
create_budget(fs, is_cost_center) ==
    fs @@ (NextId(fs) :> [is_cost_center |-> is_cost_center,
                         budget_amount_cache |-> NULL])

CreateBudget ==
    /\ NextId(funding_sources) <= limits.budgets
    /\ \E cc \in BOOLEAN :
          /\ funding_sources' = create_budget(funding_sources, cc)
          /\ last' = [op |-> "create_budget", code |-> "ok"]
    /\ UNCHANGED <<categories, ledgerVars, foreign_keys, limits, in_flight>>

\* The check counting every category of the budget, with or without amount.
_ensure_budget_can_unset_cost_center_any(cs, b) ==
    \E c \in DOMAIN cs : cs[c].budget_id = b

\* _ensure_budget_can_unset_cost_center: TRUE when the check passes.
_ensure_budget_can_unset_cost_center(cs, b) ==
    \E c \in DOMAIN cs :
        cs[c].budget_id = b /\ cs[c].is_leaf /\ cs[c].amount_leaf # NULL

\* update_budget; is_cost_center is NULL (not supplied) or <<bool>>, rename
\* tells whether name, owner, closure_date or description is supplied and
\* `applied` whether these were committed.  No statement on categories is
\* emitted, so no trigger refreshes the cache.
update_budget(fs, cs, b, is_cost_center, rename) ==
    IF b \notin DOMAIN fs
    THEN [code |-> "not_found", funding_sources |-> fs, applied |-> FALSE]
    ELSE IF is_cost_center = Some(FALSE) /\ fs[b].is_cost_center
    THEN IF _ensure_budget_can_unset_cost_center(cs, b)
         THEN [code |-> "ok",
               funding_sources |-> [fs EXCEPT ![b].is_cost_center = FALSE],
               applied |-> rename]
         ELSE [code |-> "missing_leaf_amounts", funding_sources |-> fs,
               applied |-> FALSE]
    ELSE IF is_cost_center # NULL
    THEN [code |-> "ok",
          funding_sources |-> [fs EXCEPT ![b].is_cost_center = is_cost_center[1]],
          applied |-> rename]
    ELSE [code |-> "ok", funding_sources |-> fs, applied |-> rename]

UpdateBudget ==
    /\ \E b \in BudgetIds, cc \in BoolOpt, rename \in BOOLEAN :
          LET r == update_budget(funding_sources, categories, b, cc, rename) IN
          /\ funding_sources' = r.funding_sources
          /\ last' = [op |-> "update_budget", code |-> r.code]
    /\ UNCHANGED <<categories, ledgerVars, foreign_keys, limits, in_flight>>

(***************************************************************************)
(* Categories (services/funding.py).  A service result is                  *)
(* [code, db]; when code # "ok" the transaction is rolled back and db is   *)
(* the database before the call.                                           *)
(***************************************************************************)
\* The parent check that only asks whether the parent exists.
_validate_parent_existing(cs, parent_id, project_id, budget_id) ==
    IF parent_id = 0 THEN "ok"
    ELSE IF parent_id \notin DOMAIN cs THEN "invalid_parent"
    ELSE "ok"

\* _validate_parent: "ok" or the error code.
_validate_parent(cs, parent_id, project_id, budget_id) ==
    IF parent_id = 0 THEN "ok"
    ELSE IF parent_id \notin DOMAIN cs THEN "invalid_parent"
    ELSE IF cs[parent_id].project_id # project_id \/ cs[parent_id].budget_id # budget_id
    THEN "invalid_parent"
    ELSE "ok"

\* _mark_parent_has_children on the session's copy of the parent row: the
\* pending row, or the copy itself when nothing changes.
_mark_parent_has_children(parent) ==
    IF parent.is_leaf
    THEN [parent EXCEPT !.is_leaf = FALSE, !.amount_leaf = NULL]
    ELSE parent

\* _refresh_parent_leaf_state on the session's copy of the parent row.
_refresh_parent_leaf_state(cs, parent_id, parent) ==
    IF ChildCount(cs, parent_id) = 0
    THEN [parent EXCEPT !.is_leaf = TRUE,
                        !.amount_leaf = IF @ = NULL THEN Some(0) ELSE @]
    ELSE [parent EXCEPT !.is_leaf = FALSE, !.amount_leaf = NULL]

_subtree_allocation_count_own(cs, als, id) ==
    Cardinality({a \in DOMAIN als : als[a].category_id = id})

\* _subtree_allocation_count
_subtree_allocation_count(cs, als, id) ==
    Cardinality({a \in DOMAIN als : als[a].category_id \in Subtree(cs, id)})

\* The amount a new leaf created without an amount receives: the first child
\* of a leaf parent takes over the parent's amount, a later sibling gets 0.
InheritAmount(cs, parent_id, is_leaf, amount_leaf) ==
    IF is_leaf /\ amount_leaf = NULL /\ parent_id \in DOMAIN cs
    THEN IF ~HasChild(cs, parent_id) THEN cs[parent_id].amount_leaf ELSE Some(0)
    ELSE amount_leaf

\* The UPDATE the unit of work emits for a row the session changed: the
\* columns that differ from the loaded copy are written over the stored row.
\* `touched` stands for a changed column outside the model (name,
\* description).  No statement is emitted when nothing differs.
FlushRow(db, id, loaded, pending, touched) ==
    IF (pending = loaded /\ ~touched) \/ ~db.ok THEN db
    ELSE SqlUpdateCategory(db, id,
            [f \in DOMAIN pending |->
                IF pending[f] # loaded[f] THEN pending[f] ELSE db.categories[id][f]])

create_category(db, project_id, budget_id, parent_id, is_leaf, amount_leaf, insert_first) ==
    LET cs == db.categories
        v == _validate_parent(cs, parent_id, project_id, budget_id)
        amount == IF ~is_leaf THEN NULL ELSE amount_leaf
        id == NextId(cs)
        row == [parent_id |-> parent_id, budget_id |-> budget_id,
                project_id |-> project_id, is_leaf |-> is_leaf,
                amount_leaf |-> InheritAmount(cs, parent_id, is_leaf, amount),
                rollup_amount |-> NULL, path_ids |-> NULL, path_depth |-> 0]
        \* commit: the INSERT and the parent's UPDATE, in the order the unit
        \* of work picks
        flushed ==
            IF parent_id = 0 THEN SqlInsertCategory(db, id, row)
            ELSE IF insert_first
            THEN FlushRow(SqlInsertCategory(db, id, row), parent_id,
                          cs[parent_id], _mark_parent_has_children(cs[parent_id]),
                          FALSE)
            ELSE SqlInsertCategory(
                     FlushRow(db, parent_id, cs[parent_id],
                              _mark_parent_has_children(cs[parent_id]), FALSE),
                     id, row)
    IN IF v # "ok" THEN [code |-> v, db |-> db]
       ELSE IF ~flushed.ok THEN [code |-> "integrity_error", db |-> db]
       ELSE [code |-> "ok", db |-> flushed]

CreateCategory ==
    /\ NextId(categories) <= limits.cats
    /\ \E p \in 1..limits.projects, b \in DOMAIN funding_sources,
          parent \in {0} \cup 1..limits.cats,
          leaf \in BOOLEAN, amt \in AmountOpt, insert_first \in BOOLEAN :
          LET r == create_category(Db, p, b, parent, leaf, amt, insert_first) IN
          /\ ~leaf => amt = NULL
          /\ categories' = r.db.categories
          /\ funding_sources' = r.db.funding_sources
          /\ last' = [op |-> "create_category", code |-> r.code]
    /\ UNCHANGED <<ledgerVars, foreign_keys, limits, in_flight>>

RECURSIVE DeleteRows(_, _)
\* DELETE FROM categories WHERE id IN (...): row by row, each firing the
\* AFTER DELETE trigger.
DeleteRows(db, ids) ==
    IF ids = {} THEN db
    ELSE LET id == CHOOSE x \in ids : \A y \in ids : x <= y
         IN DeleteRows(SqlDeleteCategory(db, id), ids \ {id})

delete_category_unguarded(db, als, id) ==
    IF id \notin DOMAIN db.categories THEN [code |-> "not_found", db |-> db]
    ELSE [code |-> "ok",
          db |-> DeleteRows(db, _subtree_category_ids(db.categories, id))]

\* delete_category.  The _refresh_parent_leaf_state call that follows
\* db.commit() changes the session only: nothing commits it.
delete_category(db, als, id) ==
    IF id \notin DOMAIN db.categories THEN [code |-> "not_found", db |-> db]
    ELSE IF _subtree_allocation_count(db.categories, als, id) # 0
    THEN [code |-> "allocations_present", db |-> db]
    ELSE [code |-> "ok",
          db |-> DeleteRows(db, _subtree_category_ids(db.categories, id))]


RECURSIVE UpdateScopeRows(_, _, _, _)
\* UPDATE categories SET project_id = :p, budget_id = :b WHERE id IN (...):
\* row by row, each firing the amount guard and the AFTER UPDATE trigger.
UpdateScopeRows(db, ids, project_id, budget_id) ==
    IF ids = {} \/ ~db.ok THEN db
    ELSE LET id == CHOOSE x \in ids : \A y \in ids : x <= y
             row == [db.categories[id] EXCEPT !.project_id = project_id,
                                              !.budget_id = budget_id]
         IN UpdateScopeRows(SqlUpdateCategory(db, id, row), ids \ {id},
                            project_id, budget_id)

RECURSIVE FlushAll(_, _, _, _, _, _)
\* db.commit(): one UPDATE per changed object.  The committed rows do not
\* depend on the order of these statements (each writes its own row and the
\* triggers recompute from the rows), so they are taken by ascending id.
FlushAll(db, loaded, pending, id, touched, ids) ==
    IF ids = {} THEN db
    ELSE LET x == CHOOSE y \in ids : \A z \in ids : y <= z
         IN FlushAll(FlushRow(db, x, loaded[x], pending[x], touched /\ x = id),
                     loaded, pending, id, touched, ids \ {x})

\* update_category, first block ("Parent change").  The result carries the
\* database after db.flush() and the session's loaded and pending copies.
\* A parent inside the category's own subtree closes a cycle: the rollup
\* query of the AFTER UPDATE trigger then never ends and nothing commits.
ParentChange(db, als, id, parent_id, target_project, target_budget) ==
    LET cs == db.categories
        c0 == cs[id]
        O == c0.parent_id
        P == parent_id
        c1 == [c0 EXCEPT !.parent_id = P]
        db1 == SqlUpdateCategory(db, id, c1)
        cs1 == db1.categories
        v == _validate_parent(cs, P, target_project, target_budget)
        sessP == IF P # 0 THEN (P :> cs[P]) ELSE EmptyFn
        sessO == IF O # 0 /\ O \in DOMAIN cs1 THEN (O :> cs1[O]) ELSE EmptyFn
        markP == IF P # 0 THEN (P :> _mark_parent_has_children(cs[P])) ELSE EmptyFn
        refrO == IF O # 0 /\ O \in DOMAIN cs1
                 THEN (O :> _refresh_parent_leaf_state(cs1, O, cs1[O]))
                 ELSE EmptyFn
        err(code) == [code |-> code, db |-> db, loaded |-> EmptyFn, pending |-> EmptyFn]
    IN IF P = c0.parent_id
       THEN [code |-> "ok", db |-> db, loaded |-> (id :> c0), pending |-> (id :> c0)]
       ELSE IF P = id THEN err("invalid_parent")
       ELSE IF _subtree_allocation_count(cs, als, id) # 0 THEN err("allocations_present")
       ELSE IF v # "ok" THEN err(v)
       ELSE IF P \in Subtree(cs, id) THEN err("hang")
       ELSE IF ~db1.ok THEN err("integrity_error")
       ELSE [code |-> "ok", db |-> db1,
             loaded |-> (id :> c1) @@ sessP @@ sessO,
             pending |-> (id :> c1) @@ markP @@ refrO]

\* update_category, second block ("Budget/project changes"), on the result
\* of the first.
ScopeChange(s, als, id, project_id, budget_id) ==
    LET c == s.pending[id]
        target_project == IF project_id # 0 THEN project_id ELSE c.project_id
        target_budget == IF budget_id # 0 THEN budget_id ELSE c.budget_id
        db2 == UpdateScopeRows(s.db, _subtree_category_ids(s.db.categories, id),
                               target_project, target_budget)
    IN IF s.code # "ok" THEN s
       ELSE IF (project_id # 0 /\ project_id # c.project_id)
               \/ (budget_id # 0 /\ budget_id # c.budget_id)
       THEN IF _subtree_allocation_count(s.db.categories, als, id) # 0
            THEN [s EXCEPT !.code = "allocations_present"]
            ELSE IF ~db2.ok THEN [s EXCEPT !.code = "integrity_error"]
            ELSE [s EXCEPT !.db = db2,
                           !.pending[id].project_id = target_project,
                           !.pending[id].budget_id = target_budget]
       ELSE s

\* update_category, third block (is_leaf / amount_leaf).  category.is_leaf
\* is the value the session loaded at the start of the request.
LeafChange(s, id, is_leaf, amount_leaf) ==
    LET c == s.pending[id]
    IN IF s.code # "ok" THEN s
       ELSE IF is_leaf # NULL /\ is_leaf[1] # c.is_leaf
       THEN IF is_leaf[1]
            THEN IF ChildCount(s.db.categories, id) # 0
                 THEN [s EXCEPT !.code = "has_children"]
                 ELSE [s EXCEPT !.pending[id].amount_leaf =
                                    IF amount_leaf = NULL THEN Some(0) ELSE amount_leaf,
                                !.pending[id].is_leaf = TRUE]
            ELSE [s EXCEPT !.pending[id].amount_leaf = NULL,
                           !.pending[id].is_leaf = FALSE]
       ELSE IF (is_leaf = Some(TRUE) \/ c.is_leaf) /\ amount_leaf # NULL
       THEN [s EXCEPT !.pending[id].amount_leaf = amount_leaf]
       ELSE s

\* The session of a request that ends with an error and is handed back
\* with what it flushed still in place.
SessionClose_kept(db, flushed) == flushed

\* The end of a request whose service call raised: the session is closed
\* without a commit and the statements it flushed are rolled back.
SessionClose(db, flushed) == db

\* update_category.  parent_id, project_id, budget_id: 0 when not supplied;
\* is_leaf, amount_leaf: NULL when not supplied; rename: a name or
\* description is supplied.  What follows db.commit() changes the session
\* only.
update_category(db, als, id, parent_id, project_id, budget_id, is_leaf, amount_leaf, rename) ==
    IF id \notin DOMAIN db.categories THEN [code |-> "not_found", db |-> db]
    ELSE
    LET c0 == db.categories[id]
        target_project == IF project_id # 0 THEN project_id ELSE c0.project_id
        target_budget == IF budget_id # 0 THEN budget_id ELSE c0.budget_id
        s1 == ParentChange(db, als, id, parent_id, target_project, target_budget)
        s2 == ScopeChange(s1, als, id, project_id, budget_id)
        s3 == LeafChange(s2, id, is_leaf, amount_leaf)
        committed == FlushAll(s3.db, s3.loaded, s3.pending, id, rename, DOMAIN s3.pending)
    IN IF s3.code # "ok" THEN [code |-> s3.code, db |-> SessionClose(db, s3.db)]
       ELSE IF ~committed.ok THEN [code |-> "integrity_error", db |-> db]
       ELSE [code |-> "ok", db |-> committed]


\* can_move_category(db, category_id, new_parent_id=...): the answer
\* [code, can_move, reason, count]; it emits SELECT statements only.
can_move_category(cs, als, id, new_parent_id) ==
    LET count == _subtree_allocation_count(cs, als, id)
        raised(code) == [code |-> code, can_move |-> FALSE, reason |-> "", count |-> 0]
        answer(can_move, reason, n) ==
            [code |-> "ok", can_move |-> can_move, reason |-> reason, count |-> n]
    IN IF id \notin DOMAIN cs THEN raised("not_found")
       ELSE IF new_parent_id = id THEN raised("invalid_parent")
       ELSE IF count # 0 THEN answer(FALSE, "allocations_present", count)
       ELSE IF new_parent_id # 0 /\ new_parent_id \notin DOMAIN cs
       THEN answer(FALSE, "parent_not_found", 0)
       ELSE IF new_parent_id # 0
               /\ (cs[new_parent_id].project_id # cs[id].project_id
                   \/ cs[new_parent_id].budget_id # cs[id].budget_id)
       THEN answer(FALSE, "parent_scope_mismatch", 0)
       ELSE answer(TRUE, "none", 0)

\* The requests explored for one category.  Supplying the current project
\* or budget is the same request as omitting it, is_leaf = false makes the
\* service ignore amount_leaf, and a new name changes the statements of a
\* request only when no other column changes; one request is enough for an
\* id that does not exist.
UpdateRequests(id) ==
    IF id \notin DOMAIN categories
    THEN {[parent_id |-> 0, project_id |-> 0, budget_id |-> 0, is_leaf |-> NULL,
           amount_leaf |-> NULL, rename |-> FALSE]}
    ELSE {q \in [parent_id : {0} \cup 1..limits.cats,
                 project_id : {0} \cup (1..limits.projects \ {categories[id].project_id}),
                 budget_id : {0} \cup (DOMAIN funding_sources \ {categories[id].budget_id}),
                 is_leaf : BoolOpt, amount_leaf : AmountOpt, rename : BOOLEAN] :
            /\ q.is_leaf = Some(FALSE) => q.amount_leaf = NULL
            /\ q.rename => /\ q.project_id = 0 /\ q.budget_id = 0
                           /\ q.is_leaf = NULL /\ q.amount_leaf = NULL}

UpdateCategory ==
    /\ \E id \in 1..limits.cats :
       \E q \in UpdateRequests(id) :
          LET r == update_category(Db, allocations, id, q.parent_id, q.project_id,
                                   q.budget_id, q.is_leaf, q.amount_leaf, q.rename) IN
          /\ categories' = r.db.categories
          /\ funding_sources' = r.db.funding_sources
          /\ last' = [op |-> "update_category", code |-> r.code]
    /\ UNCHANGED <<ledgerVars, foreign_keys, limits, in_flight>>

\* ON DELETE CASCADE of journal_postings.category_id, enforced when
\* foreign_keys is on.
CascadePostings(fk, jps, cs) ==
    IF fk THEN Restrict(jps, {p \in DOMAIN jps : jps[p].category_id \in {0} \cup DOMAIN cs})
    ELSE jps

DeleteCategory ==
    /\ \E id \in 1..limits.cats :
          LET r == delete_category(Db, allocations, id) IN
          /\ categories' = r.db.categories
          /\ funding_sources' = r.db.funding_sources
          /\ journal_postings' = CascadePostings(foreign_keys, journal_postings,
                                                 r.db.categories)
          /\ last' = [op |-> "delete_category", code |-> r.code]
    /\ UNCHANGED <<entries, allocations, journal_entries, foreign_keys, limits, in_flight>>

\* UPDATE categories SET amount_leaf = :v WHERE id = :id issued on the
\* connection, outside the service.
DirectUpdateAmountLeaf ==
    /\ \E id \in DOMAIN categories, amt \in AmountOpt :
          LET r == SqlUpdateCategory(Db, id, [categories[id] EXCEPT !.amount_leaf = amt]) IN
          /\ categories' = IF r.ok THEN r.categories ELSE categories
          /\ funding_sources' = IF r.ok THEN r.funding_sources ELSE funding_sources
          /\ last' = [op |-> "sql_update_amount_leaf",
                      code |-> IF r.ok THEN "ok" ELSE "abort"]
    /\ UNCHANGED <<ledgerVars, foreign_keys, limits, in_flight>>


(***************************************************************************)
(* The category handlers of backend/main.py (/api/categories).  They write *)
(* the row through the ORM without the checks of the funding service; the  *)
(* storage triggers fire as for any other statement.  budget_id stands for *)
(* the budget of the payload or, when the payload has none, the budget of  *)
(* the project.                                                            *)
(***************************************************************************)
\* The foreign key categories.parent_id, enforced when foreign_keys is on.
CategoryForeignKeysOk(fk, cs, parent_id) ==
    fk => parent_id \in {0} \cup DOMAIN cs

\* POST /api/categories.  A payload without is_leaf leaves the column to its
\* default (true).
legacy_create_category(db, fk, item_project_id, budget_id, parent_id, is_leaf, amount_leaf) ==
    LET cs == db.categories
        id == NextId(cs)
        row == [parent_id |-> parent_id, budget_id |-> budget_id,
                project_id |-> item_project_id,
                is_leaf |-> IF is_leaf = NULL THEN TRUE ELSE is_leaf[1],
                amount_leaf |-> amount_leaf,
                rollup_amount |-> NULL, path_ids |-> NULL, path_depth |-> 0]
        flushed == SqlInsertCategory(db, id, row)
    IN IF item_project_id = 0 THEN [code |-> "bad_request", db |-> db]
       ELSE IF ~CategoryForeignKeysOk(fk, cs, parent_id) \/ ~flushed.ok
       THEN [code |-> "integrity_error", db |-> db]
       ELSE [code |-> "ok", db |-> flushed]

\* A payload naming the id the new row will get as its parent is left out:
\* the row would be its own parent and the recursive statement of the AFTER
\* INSERT trigger does not end on it.
LegacyCreateCategory ==
    /\ NextId(categories) <= limits.cats
    /\ \E p \in 0..limits.projects, b \in DOMAIN funding_sources,
          parent \in ({0} \cup 1..limits.cats) \ {NextId(categories)},
          leaf \in BoolOpt, amt \in AmountOpt :
          LET r == legacy_create_category(Db, foreign_keys, p, b, parent, leaf, amt) IN
          /\ categories' = r.db.categories
          /\ funding_sources' = r.db.funding_sources
          /\ last' = [op |-> "legacy_create_category", code |-> r.code]
    /\ UNCHANGED <<ledgerVars, foreign_keys, limits, in_flight>>

\* PUT /api/categories/{cid}.  Every field of the payload is assigned, the
\* omitted ones as None: a payload without is_leaf writes NULL into a NOT
\* NULL column and the commit fails.
legacy_update_category(db, fk, id, item_project_id, budget_id, parent_id, is_leaf, amount_leaf, rename) ==
    LET cs == db.categories
        loaded == cs[id]
        pending == [loaded EXCEPT !.parent_id = parent_id,
                                  !.project_id = item_project_id,
                                  !.budget_id = budget_id,
                                  !.is_leaf = is_leaf[1],
                                  !.amount_leaf = amount_leaf]
        flushed == FlushRow(db, id, loaded, pending, rename)
    IN IF id \notin DOMAIN cs THEN [code |-> "not_found", db |-> db]
       ELSE IF is_leaf = NULL \/ ~CategoryForeignKeysOk(fk, cs, parent_id)
       THEN [code |-> "integrity_error", db |-> db]
       ELSE IF ~flushed.ok THEN [code |-> "integrity_error", db |-> db]
       ELSE [code |-> "ok", db |-> flushed]

\* The requests that would close a cycle of parent_id are left out: the
\* recursive statement of the AFTER UPDATE trigger does not end on them.
LegacyUpdateCategory ==
    /\ \E id \in 1..limits.cats, p \in 1..limits.projects,
          b \in DOMAIN funding_sources, parent \in {0} \cup 1..limits.cats,
          leaf \in BoolOpt, amt \in AmountOpt, rename \in BOOLEAN :
          LET r == legacy_update_category(Db, foreign_keys, id, p, b, parent,
                                          leaf, amt, rename) IN
          /\ parent \notin Subtree(categories, id)
          /\ categories' = r.db.categories
          /\ funding_sources' = r.db.funding_sources
          /\ last' = [op |-> "legacy_update_category", code |-> r.code]
    /\ UNCHANGED <<ledgerVars, foreign_keys, limits, in_flight>>

(***************************************************************************)
(* Entries and allocations: the API of backend/main.py and the append-only *)
(* and guard triggers of the migrations.                                   *)
(***************************************************************************)
\* POST /api/entries.  Allocation(entry_id=..., portfolio_id=..., amount=...)
\* names a column the Allocation model does not have: the constructor raises
\* for the first supplied allocation and the request rolls back.
create_entry(es, amount, allocation_amounts) ==
    IF allocation_amounts # << >> THEN [code |-> "type_error", entries |-> es]
    ELSE [code |-> "ok", entries |-> es @@ (NextId(es) :> [amount |-> amount])]

\* The handler answering as if the update had been done.
update_entry_applied(es, eid) == IF eid \notin DOMAIN es THEN "not_found" ELSE "ok"

\* PUT /api/entries/{eid}
update_entry(es, eid) == IF eid \notin DOMAIN es THEN "not_found" ELSE "append_only"

\* DELETE /api/entries/{eid}
delete_entry(es, eid) == IF eid \notin DOMAIN es THEN "not_found" ELSE "append_only"

\* The append-only DELETE trigger of allocations never firing.
trg_allocations_append_only_delete_off(old) == FALSE

\* BEFORE UPDATE / BEFORE DELETE triggers: TRUE when the statement is aborted.
trg_entries_append_only_update(old) == TRUE

trg_entries_append_only_delete(old) == TRUE

trg_allocations_append_only_update(old) == TRUE

trg_allocations_append_only_delete(old) == TRUE

\* BEFORE INSERT ON allocations: TRUE when the statement is aborted.  A
\* comparison with the columns of a category that does not exist is NULL,
\* which selects no RAISE.
trg_allocations_guard_insert(cs, new) ==
    \/ new.category_id = 0
    \/ new.category_id \in DOMAIN cs /\ ~cs[new.category_id].is_leaf
    \/ new.category_id \in DOMAIN cs
       /\ cs[new.category_id].project_id # new.item_project_id

trg_allocations_guard_update(cs, new) ==
    \/ new.category_id = 0
    \/ new.category_id \in DOMAIN cs /\ ~cs[new.category_id].is_leaf
    \/ new.category_id \in DOMAIN cs
       /\ cs[new.category_id].project_id # new.item_project_id

\* The foreign keys of an allocation row, enforced when foreign_keys is on.
AllocationForeignKeysOk(fk, es, cs, fs, new) ==
    fk => /\ new.entry_id \in DOMAIN es
          /\ new.category_id \in DOMAIN cs
          /\ new.budget_id \in DOMAIN fs

\* INSERT INTO allocations of one row: [ok, allocations].
SqlInsertAllocation(fk, es, cs, fs, als, new) ==
    IF trg_allocations_guard_insert(cs, new) \/ ~AllocationForeignKeysOk(fk, es, cs, fs, new)
    THEN [ok |-> FALSE, allocations |-> als]
    ELSE [ok |-> TRUE, allocations |-> als @@ (NextId(als) :> new)]

\* UPDATE allocations SET ... WHERE id = :id.
SqlUpdateAllocation(fk, es, cs, fs, als, id, new) ==
    IF id \notin DOMAIN als THEN [ok |-> TRUE, allocations |-> als]
    ELSE IF \/ trg_allocations_guard_update(cs, new)
            \/ trg_allocations_append_only_update(als[id])
            \/ ~AllocationForeignKeysOk(fk, es, cs, fs, new)
    THEN [ok |-> FALSE, allocations |-> als]
    ELSE [ok |-> TRUE, allocations |-> [als EXCEPT ![id] = new]]

\* DELETE FROM allocations WHERE id = :id.
SqlDeleteAllocation(als, id) ==
    IF id \notin DOMAIN als THEN [ok |-> TRUE, allocations |-> als]
    ELSE IF trg_allocations_append_only_delete(als[id])
    THEN [ok |-> FALSE, allocations |-> als]
    ELSE [ok |-> TRUE, allocations |-> Restrict(als, DOMAIN als \ {id})]

\* UPDATE entries SET amount = :v WHERE id = :id.
SqlUpdateEntry(es, id, new) ==
    IF id \notin DOMAIN es THEN [ok |-> TRUE, entries |-> es]
    ELSE IF trg_entries_append_only_update(es[id]) THEN [ok |-> FALSE, entries |-> es]
    ELSE [ok |-> TRUE, entries |-> [es EXCEPT ![id] = new]]

\* DELETE FROM entries WHERE id = :id.
SqlDeleteEntry(es, id) ==
    IF id \notin DOMAIN es THEN [ok |-> TRUE, entries |-> es]
    ELSE IF trg_entries_append_only_delete(es[id]) THEN [ok |-> FALSE, entries |-> es]
    ELSE [ok |-> TRUE, entries |-> Restrict(es, DOMAIN es \ {id})]

SqlCode(ok) == IF ok THEN "ok" ELSE "abort"

CreateEntry ==
    /\ NextId(entries) <= limits.entries
    /\ \E amount \in 1..MaxAmount, allocs \in {<< >>, <<1>>} :
          LET r == create_entry(entries, amount, allocs) IN
          /\ entries' = r.entries
          /\ last' = [op |-> "create_entry", code |-> r.code]
    /\ UNCHANGED <<treeVars, allocations, journal_entries, journal_postings,
                   foreign_keys, limits, in_flight>>

UpdateEntry ==
    /\ \E eid \in 1..limits.entries :
          last' = [op |-> "update_entry", code |-> update_entry(entries, eid)]
    /\ UNCHANGED <<treeVars, ledgerVars, foreign_keys, limits, in_flight>>

DeleteEntry ==
    /\ \E eid \in 1..limits.entries :
          last' = [op |-> "delete_entry", code |-> delete_entry(entries, eid)]
    /\ UNCHANGED <<treeVars, ledgerVars, foreign_keys, limits, in_flight>>

DirectUpdateEntry ==
    /\ \E id \in DOMAIN entries, amount \in 0..MaxAmount :
          LET r == SqlUpdateEntry(entries, id, [entries[id] EXCEPT !.amount = amount]) IN
          /\ entries' = r.entries
          /\ last' = [op |-> "sql_update_entry", code |-> SqlCode(r.ok)]
    /\ UNCHANGED <<treeVars, allocations, journal_entries, journal_postings,
                   foreign_keys, limits, in_flight>>

DirectDeleteEntry ==
    /\ \E id \in DOMAIN entries :
          LET r == SqlDeleteEntry(entries, id) IN
          /\ entries' = r.entries
          /\ last' = [op |-> "sql_delete_entry", code |-> SqlCode(r.ok)]
    /\ UNCHANGED <<treeVars, allocations, journal_entries, journal_postings,
                   foreign_keys, limits, in_flight>>

\* The allocation rows a direct INSERT or UPDATE may carry; category_id 0 is
\* NULL, an id above the categories created so far names no category.
AllocationRows ==
    [entry_id : 1..limits.entries, item_project_id : 1..limits.projects,
     category_id : 0..limits.cats, budget_id : 1..limits.budgets,
     amount : 1..MaxAmount]

DirectInsertAllocation ==
    /\ NextId(allocations) <= limits.allocs
    /\ \E new \in AllocationRows :
          LET r == SqlInsertAllocation(foreign_keys, entries, categories,
                                       funding_sources, allocations, new) IN
          /\ allocations' = r.allocations
          /\ last' = [op |-> "sql_insert_allocation", code |-> SqlCode(r.ok)]
    /\ UNCHANGED <<treeVars, entries, journal_entries, journal_postings,
                   foreign_keys, limits, in_flight>>

DirectUpdateAllocation ==
    /\ \E id \in DOMAIN allocations, new \in AllocationRows :
          LET r == SqlUpdateAllocation(foreign_keys, entries, categories,
                                       funding_sources, allocations, id, new) IN
          /\ allocations' = r.allocations
          /\ last' = [op |-> "sql_update_allocation", code |-> SqlCode(r.ok)]
    /\ UNCHANGED <<treeVars, entries, journal_entries, journal_postings,
                   foreign_keys, limits, in_flight>>

DirectDeleteAllocation ==
    /\ \E id \in DOMAIN allocations :
          LET r == SqlDeleteAllocation(allocations, id) IN
          /\ allocations' = r.allocations
          /\ last' = [op |-> "sql_delete_allocation", code |-> SqlCode(r.ok)]
    /\ UNCHANGED <<treeVars, entries, journal_entries, journal_postings,
                   foreign_keys, limits, in_flight>>


(***************************************************************************)
(* Journals (backend/main.py).                                             *)
(***************************************************************************)
JOURNAL_KINDS == {"REALLOC", "ADJUST", "CORRECTION"}

\* Decimal('0.000001') in units of 0.0000005
ZERO_TOLERANCE == 2

Abs(x) == IF x < 0 THEN -x ELSE x

RECURSIVE PreparePostings(_, _, _, _, _)
\* The loop without the lookup of the category of a triple-form posting.
PreparePostings_unscoped(cs, als, postings, i, acc) ==
    IF i > Len(postings)
    THEN IF Abs(acc.total) > ZERO_TOLERANCE
         THEN [code |-> "unbalanced", rows |-> << >>]
         ELSE [code |-> "ok", rows |-> acc.rows]
    ELSE LET posting == postings[i]
             fail(code) == [code |-> code, rows |-> << >>]
             step(row) == PreparePostings(cs, als, postings, i + 1,
                              [rows |-> Append(acc.rows, row),
                               total |-> acc.total + posting.amount])
         IN IF posting.amount = 0 THEN fail("zero_amount")
            ELSE IF posting.allocation_id # 0
            THEN IF posting.budget_id # 0 \/ posting.item_project_id # 0
                    \/ posting.category_id # 0
                 THEN fail("mixed_target")
                 ELSE IF posting.allocation_id \notin DOMAIN als
                 THEN fail("not_found")
                 ELSE step([allocation_id |-> posting.allocation_id, budget_id |-> 0,
                            item_project_id |-> 0, category_id |-> 0,
                            amount |-> posting.amount])
            ELSE IF posting.budget_id = 0 \/ posting.item_project_id = 0
                    \/ posting.category_id = 0
                 THEN fail("incomplete_target")
                 ELSE step([allocation_id |-> 0, budget_id |-> posting.budget_id,
                            item_project_id |-> posting.item_project_id,
                            category_id |-> posting.category_id,
                            amount |-> posting.amount])

\* The loop of _prepare_journal_postings over the postings from index i on;
\* rows and total are what the iterations before i accumulated.
PreparePostings(cs, als, postings, i, acc) ==
    IF i > Len(postings)
    THEN IF Abs(acc.total) > ZERO_TOLERANCE
         THEN [code |-> "unbalanced", rows |-> << >>]
         ELSE [code |-> "ok", rows |-> acc.rows]
    ELSE LET posting == postings[i]
             fail(code) == [code |-> code, rows |-> << >>]
             step(row) == PreparePostings(cs, als, postings, i + 1,
                              [rows |-> Append(acc.rows, row),
                               total |-> acc.total + posting.amount])
         IN IF posting.amount = 0 THEN fail("zero_amount")
            ELSE IF posting.allocation_id # 0
            THEN IF posting.budget_id # 0 \/ posting.item_project_id # 0
                    \/ posting.category_id # 0
                 THEN fail("mixed_target")
                 ELSE IF posting.allocation_id \notin DOMAIN als
                 THEN fail("not_found")
                 ELSE step([allocation_id |-> posting.allocation_id, budget_id |-> 0,
                            item_project_id |-> 0, category_id |-> 0,
                            amount |-> posting.amount])
            ELSE IF posting.budget_id = 0 \/ posting.item_project_id = 0
                    \/ posting.category_id = 0
                 THEN fail("incomplete_target")
                 ELSE IF posting.category_id \notin DOMAIN cs THEN fail("not_found")
                 ELSE IF cs[posting.category_id].budget_id # posting.budget_id
                         \/ cs[posting.category_id].project_id # posting.item_project_id
                 THEN fail("scope_mismatch")
                 ELSE step([allocation_id |-> 0, budget_id |-> posting.budget_id,
                            item_project_id |-> posting.item_project_id,
                            category_id |-> posting.category_id,
                            amount |-> posting.amount])

_prepare_journal_postings(cs, als, postings) ==
    IF postings = << >> THEN [code |-> "no_postings", rows |-> << >>]
    ELSE PreparePostings(cs, als, postings, 1, [rows |-> << >>, total |-> 0])

\* BEFORE INSERT ON journal_postings: TRUE when the statement is aborted.
trg_journal_postings_target_bi(new) ==
    \/ new.allocation_id # 0
       /\ (new.budget_id # 0 \/ new.item_project_id # 0 \/ new.category_id # 0)
    \/ new.allocation_id = 0
       /\ (new.budget_id = 0 \/ new.item_project_id = 0 \/ new.category_id = 0)

RECURSIVE InsertPostings(_, _, _, _)
\* INSERT INTO journal_postings, one row per prepared posting:
\* [ok, journal_postings].
InsertPostings(jps, journal_id, rows, i) ==
    IF i > Len(rows) THEN [ok |-> TRUE, journal_postings |-> jps]
    ELSE IF trg_journal_postings_target_bi(rows[i])
    THEN [ok |-> FALSE, journal_postings |-> jps]
    ELSE InsertPostings(
            jps @@ (NextId(jps) :> [journal_id |-> journal_id,
                                    allocation_id |-> rows[i].allocation_id,
                                    budget_id |-> rows[i].budget_id,
                                    item_project_id |-> rows[i].item_project_id,
                                    category_id |-> rows[i].category_id,
                                    amount |-> rows[i].amount]),
            journal_id, rows, i + 1)

_create_journal_entry_kept(cs, als, jes, jps, kind, postings) ==
    LET prepared == _prepare_journal_postings(cs, als, postings)
        id == NextId(jes)
        inserted == InsertPostings(jps, id, prepared.rows, 1)
        kept == jes @@ (id :> [kind |-> kind])
        fail(code) == [code |-> code, journal_entries |-> kept, journal_postings |-> jps]
    IN IF kind \notin JOURNAL_KINDS THEN fail("invalid_kind")
       ELSE IF prepared.code # "ok" THEN fail(prepared.code)
       ELSE IF ~inserted.ok THEN fail("integrity_error")
       ELSE [code |-> "ok", journal_entries |-> kept,
             journal_postings |-> inserted.journal_postings]

\* _create_journal: [code, journal_entries, journal_postings].
_create_journal(cs, als, jes, jps, kind, postings) ==
    LET prepared == _prepare_journal_postings(cs, als, postings)
        id == NextId(jes)
        inserted == InsertPostings(jps, id, prepared.rows, 1)
        fail(code) == [code |-> code, journal_entries |-> jes, journal_postings |-> jps]
    IN IF kind \notin JOURNAL_KINDS THEN fail("invalid_kind")
       ELSE IF prepared.code # "ok" THEN fail(prepared.code)
       ELSE IF ~inserted.ok THEN fail("integrity_error")
       ELSE [code |-> "ok", journal_entries |-> jes @@ (id :> [kind |-> kind]),
             journal_postings |-> inserted.journal_postings]

\* POST /api/journals/reallocate
journal_reallocate(cs, als, jes, jps, amount, from_allocation_id, to_allocation_id) ==
    IF amount <= 0
    THEN [code |-> "amount_not_positive", journal_entries |-> jes, journal_postings |-> jps]
    ELSE IF from_allocation_id \notin DOMAIN als \/ to_allocation_id \notin DOMAIN als
    THEN [code |-> "not_found", journal_entries |-> jes, journal_postings |-> jps]
    ELSE _create_journal(cs, als, jes, jps, "REALLOC",
            << [allocation_id |-> from_allocation_id, budget_id |-> 0,
                item_project_id |-> 0, category_id |-> 0, amount |-> -amount],
               [allocation_id |-> to_allocation_id, budget_id |-> 0,
                item_project_id |-> 0, category_id |-> 0, amount |-> amount] >>)

\* POST /api/journals/adjust
journal_adjust(cs, als, jes, jps, postings) ==
    _create_journal(cs, als, jes, jps, "ADJUST", postings)

\* SELECT SUM(amount) FROM journal_postings WHERE journal_id = :j
net_amount(jps, j) ==
    SumOver([p \in DOMAIN jps |-> jps[p].amount],
            {p \in DOMAIN jps : jps[p].journal_id = j})


\* SUM(f) over the rows S: NULL when there is no row.
SqlSum(f, S) == IF S = {} THEN NULL ELSE Some(SumOver(f, S))

\* Allocation.postings: the postings whose allocation_id is the allocation.
AllocationPostings(jps, a) == {p \in DOMAIN jps : jps[p].allocation_id = a}

\* Allocation.adjustment_delta (instance side of the hybrid property)
adjustment_delta(jps, a) ==
    IF AllocationPostings(jps, a) # {}
    THEN SumOver([p \in DOMAIN jps |-> jps[p].amount], AllocationPostings(jps, a))
    ELSE 0

effective_amount_base(als, jps, a) == als[a].amount

\* Allocation.effective_amount (instance side of the hybrid property)
effective_amount(als, jps, a) ==
    (IF als[a].amount # 0 THEN als[a].amount ELSE 0) + adjustment_delta(jps, a)

\* Column effective_amount of the view allocations_effective, which is also
\* the SQL expression of the hybrid property.
allocations_effective(als, jps, a) ==
    als[a].amount
    + Coalesce0(SqlSum([p \in DOMAIN jps |-> jps[p].amount], AllocationPostings(jps, a)))

\* The postings a request may carry: an allocation, a category triple, a
\* triple without its budget and project, and an allocation with a category.
PostingInputs ==
    LET target(a, b, p, c) == [allocation_id |-> a, budget_id |-> b,
                               item_project_id |-> p, category_id |-> c]
        targets == {target(a, 0, 0, 0) : a \in 1..limits.allocs}
                   \cup {target(0, b, p, c) : b \in 1..limits.budgets,
                            p \in 1..limits.projects, c \in 1..limits.cats}
                   \cup {target(0, 0, 0, 1), target(1, 0, 0, 1)}
    IN {[allocation_id |-> t.allocation_id, budget_id |-> t.budget_id,
         item_project_id |-> t.item_project_id, category_id |-> t.category_id,
         amount |-> v] : t \in targets, v \in -1..MaxPostingAmount}

PostingLists ==
    UNION {[1..n -> PostingInputs] : n \in 0..MaxPostings}

\* POST /api/journals
CreateJournal ==
    /\ NextId(journal_entries) <= limits.journals
    /\ \E kind \in {"CORRECTION", "TRANSFER"}, postings \in PostingLists :
          LET r == _create_journal(categories, allocations, journal_entries,
                                   journal_postings, kind, postings) IN
          /\ journal_entries' = r.journal_entries
          /\ journal_postings' = r.journal_postings
          /\ last' = [op |-> "create_journal", code |-> r.code]
    /\ UNCHANGED <<treeVars, entries, allocations, foreign_keys, limits, in_flight>>

JournalReallocate ==
    /\ NextId(journal_entries) <= limits.journals
    /\ \E amount \in 0..MaxPostingAmount, from \in 1..limits.allocs, to \in 1..limits.allocs :
          LET r == journal_reallocate(categories, allocations, journal_entries,
                                      journal_postings, amount, from, to) IN
          /\ journal_entries' = r.journal_entries
          /\ journal_postings' = r.journal_postings
          /\ last' = [op |-> "journal_reallocate", code |-> r.code]
    /\ UNCHANGED <<treeVars, entries, allocations, foreign_keys, limits, in_flight>>

JournalAdjust ==
    /\ NextId(journal_entries) <= limits.journals
    /\ \E postings \in PostingLists :
          LET r == journal_adjust(categories, allocations, journal_entries,
                                  journal_postings, postings) IN
          /\ journal_entries' = r.journal_entries
          /\ journal_postings' = r.journal_postings
          /\ last' = [op |-> "journal_adjust", code |-> r.code]
    /\ UNCHANGED <<treeVars, entries, allocations, foreign_keys, limits, in_flight>>

\* CHECK ck_journal_postings_target of journal_postings: TRUE when the
\* row satisfies the constraint.
ck_journal_postings_target(new) ==
    \/ new.allocation_id # 0 /\ new.budget_id = 0
       /\ new.item_project_id = 0 /\ new.category_id = 0
    \/ new.allocation_id = 0 /\ new.budget_id # 0
       /\ new.item_project_id # 0 /\ new.category_id # 0

\* The foreign keys of a posting row, enforced when foreign_keys is on.
PostingForeignKeysOk(fk, jes, als, cs, fs, new) ==
    fk => /\ new.journal_id \in DOMAIN jes
          /\ new.allocation_id # 0 => new.allocation_id \in DOMAIN als
          /\ new.category_id # 0 => new.category_id \in DOMAIN cs
          /\ new.budget_id # 0 => new.budget_id \in DOMAIN fs

SqlInsertPosting_unguarded(fk, jes, als, cs, fs, jps, new) ==
    [ok |-> TRUE, journal_postings |-> jps @@ (NextId(jps) :> new)]

\* INSERT INTO journal_postings of one row: [ok, journal_postings].
SqlInsertPosting(fk, jes, als, cs, fs, jps, new) ==
    IF \/ trg_journal_postings_target_bi(new)
       \/ ~ck_journal_postings_target(new)
       \/ ~PostingForeignKeysOk(fk, jes, als, cs, fs, new)
    THEN [ok |-> FALSE, journal_postings |-> jps]
    ELSE [ok |-> TRUE, journal_postings |-> jps @@ (NextId(jps) :> new)]

\* The posting rows a direct INSERT may carry: every combination of set and
\* NULL (0) target columns.
PostingRows ==
    [journal_id : 1..limits.journals, allocation_id : 0..1, budget_id : 0..1,
     item_project_id : 0..1, category_id : 0..1, amount : {1}]

DirectInsertPosting ==
    /\ NextId(journal_postings) <= MaxPostings
    /\ \E new \in PostingRows :
          LET r == SqlInsertPosting(foreign_keys, journal_entries, allocations,
                                    categories, funding_sources,
                                    journal_postings, new) IN
          /\ journal_postings' = r.journal_postings
          /\ last' = [op |-> "sql_insert_posting", code |-> SqlCode(r.ok)]
    /\ UNCHANGED <<treeVars, entries, allocations, journal_entries,
                   foreign_keys, limits, in_flight>>

\* A journal written on the session without _create_journal: the INSERT of
\* the journal_entries row, the INSERT of one posting of it, and the commit.
\* No trigger or constraint of the schema looks at the sum of a journal's
\* postings (the migration drops the trg_journal_postings_balance_* triggers).
DirectInsertJournal ==
    /\ NextId(journal_entries) <= limits.journals
    /\ NextId(journal_postings) <= MaxPostings
    /\ \E allocation_id \in 0..1, target \in 0..1, amount \in 1..MaxPostingAmount :
          LET id == NextId(journal_entries)
              jes == journal_entries @@ (id :> [kind |-> "REALLOC"])
              new == [journal_id |-> id, allocation_id |-> allocation_id,
                      budget_id |-> target, item_project_id |-> target,
                      category_id |-> target, amount |-> amount]
              r == SqlInsertPosting(foreign_keys, jes, allocations, categories,
                                    funding_sources, journal_postings, new) IN
          /\ journal_entries' = IF r.ok THEN jes ELSE journal_entries
          /\ journal_postings' = r.journal_postings
          /\ last' = [op |-> "sql_insert_journal", code |-> SqlCode(r.ok)]
    /\ UNCHANGED <<treeVars, entries, allocations, foreign_keys, limits, in_flight>>

(***************************************************************************)
(* The reconciler (backend/scripts/reconcile_ledgers.py).  It works on the *)
(* session's objects (`pending`); the UPDATE statements of a flush carry   *)
(* the columns that differ from the copy the session holds (`loaded`) and  *)
(* fire the category triggers.                                             *)
(***************************************************************************)
\* children[id]: the rows whose parent_id is the id.
Children(cs, id) == {c \in DOMAIN cs : cs[c].parent_id = id}

MinOf(S) == CHOOSE x \in S : \A y \in S : x <= y

RECURSIVE _walk_paths(_, _, _), WalkEach(_, _, _)
\* The traversal handing every child the ancestors of its parent instead of
\* the parent's own path.
_walk_paths_flat(cs, node, ancestors_ids) ==
    LET path_ids == Append(ancestors_ids, node)
        cs1 == [cs EXCEPT ![node].path_ids = Some(path_ids),
                          ![node].path_depth = Len(path_ids) - 1]
    IN WalkEach(cs1, Children(cs, node), ancestors_ids)

\* Sets the path columns of the node and of everything below it.
_walk_paths(cs, node, ancestors_ids) ==
    LET path_ids == Append(ancestors_ids, node)
        cs1 == [cs EXCEPT ![node].path_ids = Some(path_ids),
                          ![node].path_depth = Len(path_ids) - 1]
    IN WalkEach(cs1, Children(cs, node), path_ids)

\* for child in children.get(node.id, []) / for root in roots.
WalkEach(cs, nodes, ancestors_ids) ==
    IF nodes = {} THEN cs
    ELSE LET n == MinOf(nodes)
         IN WalkEach(_walk_paths(cs, n, ancestors_ids), nodes \ {n}, ancestors_ids)

RECURSIVE _compute_totals(_, _), TotalsEach(_, _, _)
\* Result [cs, total]: the objects after the visit and the node's subtotal.
_compute_totals(cs, node) ==
    LET kids == Children(cs, node) IN
    IF kids = {}
    THEN LET amount == Coalesce0(cs[node].amount_leaf)
         IN [cs |-> [cs EXCEPT ![node].is_leaf = TRUE,
                               ![node].rollup_amount = Some(amount)],
             total |-> amount]
    ELSE LET r == TotalsEach([cs EXCEPT ![node].is_leaf = FALSE,
                                        ![node].amount_leaf = NULL], kids, 0)
         IN [cs |-> [r.cs EXCEPT ![node].rollup_amount = Some(r.total)],
             total |-> r.total]

\* for child in kids: subtotal += _compute_totals(child, children).
TotalsEach(cs, nodes, subtotal) ==
    IF nodes = {} THEN [cs |-> cs, total |-> subtotal]
    ELSE LET n == MinOf(nodes)
             r == _compute_totals(cs, n)
         IN TotalsEach(r.cs, nodes \ {n}, subtotal + r.total)

RECURSIVE by_budget_keys(_, _, _)
\* The keys of by_budget in insertion order: the budgets in the order in
\* which the scan of the categories table (by rowid) first meets them.
by_budget_keys(cs, ids, acc) ==
    IF ids = {} THEN acc
    ELSE LET c == MinOf(ids)
             b == cs[c].budget_id
         IN by_budget_keys(cs, ids \ {c},
                IF \E i \in 1..Len(acc) : acc[i] = b THEN acc ELSE Append(acc, b))

RECURSIVE FlushBudgets(_, _)
\* The UPDATE of every budget object the session changed.  updated_at is in
\* every one of them; budget_amount_cache only when it differs from the
\* value the object was loaded with.
FlushBudgets(db, dirty) ==
    IF DOMAIN dirty = {} \/ ~db.ok THEN db
    ELSE LET b == MinOf(DOMAIN dirty)
             db1 == IF dirty[b].to = dirty[b].from THEN db
                    ELSE [db EXCEPT !.funding_sources[b].budget_amount_cache =
                                        dirty[b].to]
         IN FlushBudgets(db1, Restrict(dirty, DOMAIN dirty \ {b}))

\* One flush of the session [db, loaded, pending, dirty].  The mappers of
\* Category and FundingSource have no relationship, so the unit of work may
\* emit either table's statements first.
SessionFlush(s, budget_first) ==
    LET ids == DOMAIN s.pending
        db1 == IF budget_first
               THEN FlushAll(FlushBudgets(s.db, s.dirty), s.loaded, s.pending,
                             0, FALSE, ids)
               ELSE FlushBudgets(FlushAll(s.db, s.loaded, s.pending, 0, FALSE, ids),
                                 s.dirty)
    IN [db |-> db1, loaded |-> s.pending, pending |-> s.pending, dirty |-> EmptyFn]

\* total = sum(amount_leaf or 0 for cat in cats if cat.is_leaf).
BudgetTotal(loaded, pending, b) ==
    SumOver([c \in DOMAIN pending |-> Coalesce0(pending[c].amount_leaf)],
            {c \in DOMAIN pending : pending[c].budget_id = b /\ pending[c].is_leaf})

RECURSIVE ReconcileBudgets(_, _, _, _, _, _)
\* The loop over by_budget.items().  session.get(FundingSource, ...) is a
\* query: a session with autoflush flushes what is pending before it.
ReconcileBudgets(s, keys, i, totals, autoflush, budget_first) ==
    IF i > Len(keys) THEN [s |-> s, totals |-> totals]
    ELSE LET budget_id == keys[i]
             start == s.pending
             roots == {c \in DOMAIN start : start[c].budget_id = budget_id
                                            /\ start[c].parent_id = 0}
             walked == WalkEach(start, roots, << >>)
             computed == TotalsEach(walked, roots, 0).cs
             total == BudgetTotal(start, computed, budget_id)
             s1 == IF autoflush
                   THEN SessionFlush([s EXCEPT !.pending = computed], budget_first)
                   ELSE [s EXCEPT !.pending = computed]
             fs == s1.db.funding_sources
             s2 == IF budget_id \in DOMAIN fs
                   THEN [s1 EXCEPT !.dirty = @ @@ (budget_id :>
                            [from |-> fs[budget_id].budget_amount_cache,
                             to |-> IF fs[budget_id].is_cost_center THEN NULL
                                    ELSE Some(total)])]
                   ELSE s1
         IN ReconcileBudgets(s2, keys, i + 1, totals @@ (budget_id :> total),
                             autoflush, budget_first)

\* reconcile_ledgers(session).  Result [code, db, budgets_reconciled,
\* totals]; a statement aborted by a trigger fails the commit and nothing
\* is stored.
reconcile_ledgers(db, autoflush, budget_first) ==
    LET cs == db.categories
        keys == by_budget_keys(cs, DOMAIN cs, << >>)
        r == ReconcileBudgets([db |-> db, loaded |-> cs, pending |-> cs,
                               dirty |-> EmptyFn],
                              keys, 1, EmptyFn, autoflush, budget_first)
        committed == SessionFlush(r.s, budget_first).db
    IN IF ~committed.ok
       THEN [code |-> "integrity_error", db |-> db,
             budgets_reconciled |-> 0, totals |-> EmptyFn]
       ELSE [code |-> "ok", db |-> committed,
             budgets_reconciled |-> Cardinality(DOMAIN r.totals),
             totals |-> r.totals]

Reconcile ==
    /\ \E autoflush \in BOOLEAN, budget_first \in BOOLEAN :
          LET r == reconcile_ledgers(Db, autoflush, budget_first) IN
          /\ categories' = r.db.categories
          /\ funding_sources' = r.db.funding_sources
          /\ last' = [op |-> "reconcile", code |-> r.code]
    /\ UNCHANGED <<ledgerVars, foreign_keys, limits, in_flight>>

\* UPDATE funding_sources SET budget_amount_cache = :v WHERE id = :b issued
\* on the connection; no trigger watches funding_sources.
DirectUpdateCache ==
    /\ \E b \in DOMAIN funding_sources, v \in AmountOpt :
          /\ funding_sources' = [funding_sources EXCEPT ![b].budget_amount_cache = v]
          /\ last' = [op |-> "sql_update_cache", code |-> "ok"]
    /\ UNCHANGED <<categories, ledgerVars, foreign_keys, limits, in_flight>>

(***************************************************************************)
(* Two sessions.  delete_category and update_category first read (db.get   *)
(* and the subtree-allocation count) and then write; in_flight holds the   *)
(* request between the two, with the allocations its reads have seen,      *)
(* while a second session inserts an allocation and commits.               *)
(***************************************************************************)
\* A storage that admits every write of another session between the reads
\* and the writes of a request.
ConcurrentWriteAdmitted_any(cs, f, new) == TRUE

\* Isolation of the storage: an insert of another session that names a
\* category of the subtree the request in flight has checked waits until
\* that request has committed.
ConcurrentWriteAdmitted(cs, f, new) == new.category_id \notin Subtree(cs, f.id)

\* The re-parent, detach and scope requests of update_category for one
\* category: those that run _assert_no_subtree_allocations.
MoveRequests(id) ==
    {q \in UpdateRequests(id) :
        /\ id \in DOMAIN categories
        /\ q.is_leaf = NULL /\ q.amount_leaf = NULL /\ ~q.rename
        /\ \/ q.parent_id # categories[id].parent_id
           \/ q.project_id # 0
           \/ q.budget_id # 0}

\* delete_category up to the DELETE: the request ends here when it raises.
BeginDeleteCategory ==
    /\ in_flight = NULL
    /\ \E id \in 1..limits.cats :
          LET r == delete_category(Db, allocations, id) IN
          IF r.code = "ok"
          THEN /\ in_flight' = [op |-> "delete_category", id |-> id,
                                parent_id |-> 0, project_id |-> 0, budget_id |-> 0,
                                seen |-> allocations]
               /\ last' = [op |-> "delete_category", code |-> "checked"]
          ELSE /\ in_flight' = NULL
               /\ last' = [op |-> "delete_category", code |-> r.code]
    /\ UNCHANGED <<treeVars, ledgerVars, foreign_keys, limits>>

\* The DELETE and db.commit() of delete_category.  With foreign_keys on the
\* DELETE cascades to the allocations of the deleted rows, where
\* trg_allocations_append_only_delete aborts the statement.
FinishDeleteCategory ==
    /\ in_flight # NULL
    /\ in_flight.op = "delete_category"
    /\ LET r == delete_category(Db, in_flight.seen, in_flight.id)
           aborted ==
               /\ foreign_keys
               /\ \E a \in DOMAIN allocations :
                     /\ allocations[a].category_id \in DOMAIN categories
                     /\ allocations[a].category_id \notin DOMAIN r.db.categories
                     /\ trg_allocations_append_only_delete(allocations[a])
       IN IF aborted
          THEN /\ UNCHANGED <<treeVars, journal_postings>>
               /\ last' = [op |-> "delete_category", code |-> "integrity_error"]
          ELSE /\ categories' = r.db.categories
               /\ funding_sources' = r.db.funding_sources
               /\ journal_postings' = CascadePostings(foreign_keys, journal_postings,
                                                      r.db.categories)
               /\ last' = [op |-> "delete_category", code |-> r.code]
    /\ in_flight' = NULL
    /\ UNCHANGED <<entries, allocations, journal_entries, foreign_keys, limits>>

\* update_category up to its first write, for a request that moves the
\* category: the request ends here when it raises.
BeginMoveCategory ==
    /\ in_flight = NULL
    /\ \E id \in DOMAIN categories :
       \E q \in MoveRequests(id) :
          LET r == update_category(Db, allocations, id, q.parent_id, q.project_id,
                                   q.budget_id, NULL, NULL, FALSE) IN
          IF r.code = "ok"
          THEN /\ in_flight' = [op |-> "update_category", id |-> id,
                                parent_id |-> q.parent_id,
                                project_id |-> q.project_id,
                                budget_id |-> q.budget_id, seen |-> allocations]
               /\ last' = [op |-> "update_category", code |-> "checked"]
          ELSE /\ in_flight' = NULL
               /\ last' = [op |-> "update_category", code |-> r.code]
    /\ UNCHANGED <<treeVars, ledgerVars, foreign_keys, limits>>

\* The statements and db.commit() of the update_category in flight.
FinishMoveCategory ==
    /\ in_flight # NULL
    /\ in_flight.op = "update_category"
    /\ LET r == update_category(Db, in_flight.seen, in_flight.id,
                                in_flight.parent_id, in_flight.project_id,
                                in_flight.budget_id, NULL, NULL, FALSE) IN
          /\ categories' = r.db.categories
          /\ funding_sources' = r.db.funding_sources
          /\ last' = [op |-> "update_category", code |-> r.code]
    /\ in_flight' = NULL
    /\ UNCHANGED <<ledgerVars, foreign_keys, limits>>

\* INSERT INTO allocations and COMMIT of a second session, at any time the
\* storage admits it.
ConcurrentInsertAllocation ==
    /\ NextId(allocations) <= limits.allocs
    /\ \E new \in AllocationRows :
          LET r == SqlInsertAllocation(foreign_keys, entries, categories,
                                       funding_sources, allocations, new) IN
          /\ in_flight # NULL => ConcurrentWriteAdmitted(categories, in_flight, new)
          /\ allocations' = r.allocations
          /\ last' = [op |-> "sql_insert_allocation", code |-> SqlCode(r.ok)]
    /\ UNCHANGED <<treeVars, entries, journal_entries, journal_postings,
                   foreign_keys, limits, in_flight>>

Tables ==
    /\ funding_sources = << >>
    /\ categories = << >>
    /\ entries = << >>
    /\ allocations = << >>
    /\ journal_entries = << >>
    /\ journal_postings = << >>
    /\ last = [op |-> "init", code |-> "ok"]
    /\ in_flight = NULL

\* Categories and budgets.  No statement of these requests depends on the
\* foreign-key setting.
Init ==
    /\ Tables
    /\ foreign_keys = FALSE
    /\ limits \in {DeepTree, ScopedTree}

Next ==
    \/ CreateBudget
    \/ UpdateBudget
    \/ CreateCategory
    \/ UpdateCategory
    \/ DeleteCategory
    \/ DirectUpdateAmountLeaf

Spec == Init /\ [][Next]_vars

\* Entries and allocations over a small category tree.
InitFacts ==
    /\ Tables
    /\ foreign_keys \in BOOLEAN
    /\ limits = FactsUniverse

NextFacts ==
    \/ CreateBudget
    \/ CreateCategory
    \/ DeleteCategory
    \/ CreateEntry
    \/ UpdateEntry
    \/ DeleteEntry
    \/ DirectUpdateEntry
    \/ DirectDeleteEntry
    \/ DirectInsertAllocation
    \/ DirectUpdateAllocation
    \/ DirectDeleteAllocation

SpecFacts == InitFacts /\ [][NextFacts]_vars

\* Journals over a small category tree.
InitJournal ==
    /\ Tables
    /\ foreign_keys \in BOOLEAN
    /\ limits = JournalUniverse

NextJournal ==
    \/ CreateBudget
    \/ CreateCategory
    \/ DeleteCategory
    \/ CreateEntry
    \/ DirectInsertAllocation
    \/ CreateJournal
    \/ JournalReallocate
    \/ JournalAdjust

SpecJournal == InitJournal /\ [][NextJournal]_vars

\* Journals and direct inserts of postings over a small category tree.
NextPostings ==
    \/ CreateBudget
    \/ CreateCategory
    \/ DeleteCategory
    \/ CreateEntry
    \/ DirectInsertAllocation
    \/ CreateJournal
    \/ JournalReallocate
    \/ JournalAdjust
    \/ DirectInsertPosting

InitPostings ==
    /\ Tables
    /\ foreign_keys \in BOOLEAN
    /\ limits = PostingsUniverse

SpecPostings == InitPostings /\ [][NextPostings]_vars

\* The category operations over a tree that carries an allocation.
InitGuard ==
    /\ Tables
    /\ foreign_keys = FALSE
    /\ limits = GuardUniverse

NextGuard ==
    \/ CreateBudget
    \/ CreateCategory
    \/ UpdateCategory
    \/ DeleteCategory
    \/ CreateEntry
    \/ DirectInsertAllocation

SpecGuard == InitGuard /\ [][NextGuard]_vars

\* Journals and postings written on the connection, without the API.
InitDirectJournal ==
    /\ Tables
    /\ foreign_keys \in BOOLEAN
    /\ limits = PostingsUniverse

NextDirectJournal ==
    \/ CreateBudget
    \/ CreateCategory
    \/ CreateEntry
    \/ DirectInsertAllocation
    \/ DirectInsertJournal
    \/ DirectInsertPosting

SpecDirectJournal == InitDirectJournal /\ [][NextDirectJournal]_vars

\* Journals over categories of two budgets.
InitJournalScope ==
    /\ Tables
    /\ foreign_keys \in BOOLEAN
    /\ limits = ScopeUniverse

NextJournalScope ==
    \/ CreateBudget
    \/ CreateCategory
    \/ DeleteCategory
    \/ CreateJournal

SpecJournalScope == InitJournalScope /\ [][NextJournalScope]_vars

\* The category operations and the reconciler.
InitReconcile ==
    /\ Tables
    /\ foreign_keys = FALSE
    /\ limits = ScopedTree

NextReconcile ==
    \/ CreateBudget
    \/ CreateCategory
    \/ UpdateCategory
    \/ DeleteCategory
    \/ Reconcile

SpecReconcile == InitReconcile /\ [][NextReconcile]_vars

\* Drift: cache writes on the connection between category operations, and
\* the reconciler.
InitDrift ==
    /\ Tables
    /\ foreign_keys = FALSE
    /\ limits = ScopedTree

NextDrift ==
    \/ CreateBudget
    \/ CreateCategory
    \/ DeleteCategory
    \/ DirectUpdateCache
    \/ Reconcile

SpecDrift == InitDrift /\ [][NextDrift]_vars

\* The category writes of the funding service and of /api/categories.
InitLegacy ==
    /\ Tables
    /\ foreign_keys \in BOOLEAN
    /\ limits = ScopedTree

NextLegacy ==
    \/ CreateBudget
    \/ CreateCategory
    \/ UpdateCategory
    \/ LegacyCreateCategory
    \/ LegacyUpdateCategory

SpecLegacy == InitLegacy /\ [][NextLegacy]_vars

\* A delete or move of a category in one session and allocation inserts
\* of another.  The tree is built while no request is in flight.
InitConcurrent ==
    /\ Tables
    /\ foreign_keys \in BOOLEAN
    /\ limits = ConcurrentUniverse

NextConcurrent ==
    \/ (in_flight = NULL /\ CreateBudget)
    \/ (in_flight = NULL /\ CreateCategory)
    \/ (in_flight = NULL /\ CreateEntry)
    \/ BeginDeleteCategory
    \/ FinishDeleteCategory
    \/ BeginMoveCategory
    \/ FinishMoveCategory
    \/ ConcurrentInsertAllocation

SpecConcurrent == InitConcurrent /\ [][NextConcurrent]_vars

\* Deletions in trees of three categories over two budgets, built by the
\* funding service and by POST /api/categories.
InitDeleteFrame ==
    /\ Tables
    /\ foreign_keys \in BOOLEAN
    /\ limits = CrossTree

NextDeleteFrame ==
    \/ CreateBudget
    \/ CreateCategory
    \/ LegacyCreateCategory
    \/ DeleteCategory

SpecDeleteFrame == InitDeleteFrame /\ [][NextDeleteFrame]_vars

(***************************************************************************)
(* Properties.                                                             *)
(***************************************************************************)
\* Sum of amount_leaf over the childless categories of the subtree of c.
LeafSumOfSubtree(cs, c) ==
    SumAmountLeaf(cs, {x \in Subtree(cs, c) : ~HasChild(cs, x)})

\* Sum of amount_leaf over the childless categories of budget b.
LeafSumOfBudget(cs, b) ==
    SumAmountLeaf(cs, {x \in DOMAIN cs : cs[x].budget_id = b /\ ~HasChild(cs, x)})

\* C1: after any sequence of committed create_category, update_category and
\* delete_category calls, a category has is_leaf = true if and only if no
\* category has it as parent_id.
C1_LeafIffNoChild ==
    \A c \in DOMAIN categories : categories[c].is_leaf <=> ~HasChild(categories, c)

\* C2: after any sequence of committed category inserts, updates and deletes,
\* the rollup_amount of every category is the sum of amount_leaf over the
\* leaf categories of its subtree.
C2_RollupIsLeafSum ==
    \A c \in DOMAIN categories :
        categories[c].rollup_amount = Some(LeafSumOfSubtree(categories, c))

\* C3: a budget that is not a cost center and whose cache has been computed
\* has budget_amount_cache equal to the sum of amount_leaf over its leaf
\* categories, also after update_category moved categories out of it or
\* into it.
C3_CacheIsLeafSum ==
    \A b \in DOMAIN funding_sources :
        (~funding_sources[b].is_cost_center
         /\ funding_sources[b].budget_amount_cache # NULL)
        => funding_sources[b].budget_amount_cache
             = Some(LeafSumOfBudget(categories, b))

C9_CostCenterCacheIsNull ==
    \A b \in DOMAIN funding_sources :
        funding_sources[b].is_cost_center
        => funding_sources[b].budget_amount_cache = NULL

C4_AppendOnly ==
    [][/\ \A e \in DOMAIN entries : e \in DOMAIN entries' /\ entries'[e] = entries[e]
       /\ \A a \in DOMAIN allocations :
             a \in DOMAIN allocations' /\ allocations'[a] = allocations[a]]_vars

\* A direct DELETE of an existing allocation has just been aborted.
C4_Witness ==
    /\ last = [op |-> "sql_delete_allocation", code |-> "abort"]
    /\ DOMAIN allocations # {}
    /\ DOMAIN entries # {}

\* C5: every persisted journal entry has postings whose amounts sum to less
\* than the tolerance in absolute value (stated for a connection that
\* enforces foreign keys, where every posting names existing rows).
C5_JournalsBalanced ==
    foreign_keys
    => \A j \in DOMAIN journal_entries :
          Abs(net_amount(journal_postings, j)) < ZERO_TOLERANCE

\* C6: an allocation row is inserted only for a category that exists, is a
\* leaf and belongs to the allocation's item_project_id.
C6_AllocationNeedsLeafCategory ==
    [][\A a \in DOMAIN allocations' \ DOMAIN allocations :
          LET c == allocations'[a].category_id IN
          /\ c \in DOMAIN categories
          /\ categories[c].is_leaf
          /\ categories[c].project_id = allocations'[a].item_project_id]_vars

\* C7: createJournal rejects a list of two postings +x and -y whose sum is
\* exactly the tolerance (as +25 and -24.999999 are), and persists nothing
\* (stated for a connection that enforces foreign keys).
C7_SumAtToleranceRejected ==
    foreign_keys
    => \A postings \in PostingLists :
          LET r == _create_journal(categories, allocations, journal_entries,
                                   journal_postings, "CORRECTION", postings)
          IN (/\ Len(postings) = MaxPostings
              /\ postings[1].amount > 0
              /\ postings[MaxPostings].amount < 0
              /\ postings[1].amount + postings[MaxPostings].amount = ZERO_TOLERANCE)
             => /\ r.code # "ok"
                /\ r.journal_entries = journal_entries
                /\ r.journal_postings = journal_postings

\* C11: every persisted journal posting targets either an allocation alone
\* or the full triple budget + item project + category with no allocation;
\* createJournal rejects a posting list that holds any other combination,
\* and a direct INSERT of such a row is aborted.
C11_PostingTargetsOneForm ==
    /\ \A p \in DOMAIN journal_postings :
          ck_journal_postings_target(journal_postings[p])
    /\ \A postings \in PostingLists :
          (\E i \in 1..Len(postings) : ~ck_journal_postings_target(postings[i]))
          => _create_journal(categories, allocations, journal_entries,
                             journal_postings, "CORRECTION", postings).code # "ok"
    /\ \A new \in PostingRows :
          ~ck_journal_postings_target(new)
          => ~SqlInsertPosting(foreign_keys, journal_entries, allocations,
                               categories, funding_sources, journal_postings, new).ok

\* A direct INSERT of a posting has just been aborted while a journal and
\* a well-formed posting of it are stored.
C11_Witness ==
    /\ last = [op |-> "sql_insert_posting", code |-> "abort"]
    /\ DOMAIN journal_entries # {}
    /\ \E p \in DOMAIN journal_postings :
          journal_postings[p].journal_id \in DOMAIN journal_entries

\* C12: createJournal is all-or-nothing: when the kind is invalid, a posting
\* fails validation or the postings do not balance, no journal entry and no
\* posting is stored; on success exactly one journal entry is stored together
\* with one posting of it per posting of the request, and the rows stored
\* before stay as they were.
C12_CreateJournalAllOrNothing ==
    \A kind \in {"CORRECTION", "TRANSFER"}, postings \in PostingLists :
        LET r == _create_journal(categories, allocations, journal_entries,
                                 journal_postings, kind, postings)
            j == NextId(journal_entries)
            added == DOMAIN r.journal_postings \ DOMAIN journal_postings
        IN IF r.code = "ok"
           THEN /\ DOMAIN r.journal_entries = DOMAIN journal_entries \cup {j}
                /\ Restrict(r.journal_entries, DOMAIN journal_entries) = journal_entries
                /\ Restrict(r.journal_postings, DOMAIN journal_postings) = journal_postings
                /\ Cardinality(added) = Len(postings)
                /\ \A p \in added : r.journal_postings[p].journal_id = j
           ELSE /\ r.journal_entries = journal_entries
                /\ r.journal_postings = journal_postings

\* A journal of two postings has just been stored by createJournal.
C12_Witness ==
    /\ last = [op |-> "create_journal", code |-> "ok"]
    /\ \E j \in DOMAIN journal_entries :
          Cardinality({p \in DOMAIN journal_postings :
                          journal_postings[p].journal_id = j}) = MaxPostings

\* C13: in every state the effective amount of every allocation, read
\* through the model property or through the view, is its amount plus the
\* sum of the amounts of the postings that name it (its amount when there is
\* none), and no journal request changes the amount of an allocation.
C13_EffectiveAmount ==
    [][/\ \A a \in DOMAIN allocations' :
             LET named == {p \in DOMAIN journal_postings' :
                              journal_postings'[p].allocation_id = a}
                 expected == allocations'[a].amount
                             + SumOver([p \in DOMAIN journal_postings' |->
                                           journal_postings'[p].amount], named)
             IN /\ effective_amount(allocations', journal_postings', a) = expected
                /\ allocations_effective(allocations', journal_postings', a) = expected
                /\ named = {} =>
                      effective_amount(allocations', journal_postings', a)
                         = allocations'[a].amount
       /\ last'.op \in {"create_journal", "journal_reallocate", "journal_adjust"}
          => \A a \in DOMAIN allocations :
                a \in DOMAIN allocations' /\ allocations'[a].amount = allocations[a].amount]_vars

\* A journal has just given an allocation an effective amount that differs
\* from its amount.
C13_Witness ==
    /\ last.op \in {"create_journal", "journal_reallocate", "journal_adjust"}
    /\ last.code = "ok"
    /\ \E a \in DOMAIN allocations :
          /\ AllocationPostings(journal_postings, a) # {}
          /\ effective_amount(allocations, journal_postings, a) # allocations[a].amount

\* C14: reallocate(from, to, amount) with amount > 0 between two stored
\* allocations stores one balanced REALLOC journal of exactly two postings,
\* -amount on from and +amount on to; the effective amount of from goes down
\* by amount, that of to goes up by amount, and the sum of the effective
\* amounts of all allocations stays the same.
C14_ReallocateMovesAmount ==
    \A amount \in 1..MaxPostingAmount, from \in DOMAIN allocations, to \in DOMAIN allocations :
        LET r == journal_reallocate(categories, allocations, journal_entries,
                                    journal_postings, amount, from, to)
            j == NextId(journal_entries)
            added == DOMAIN r.journal_postings \ DOMAIN journal_postings
            eff(jps) == [a \in DOMAIN allocations |-> effective_amount(allocations, jps, a)]
        IN /\ r.code = "ok"
           /\ DOMAIN r.journal_entries = DOMAIN journal_entries \cup {j}
           /\ r.journal_entries[j].kind = "REALLOC"
           /\ Cardinality(added) = 2
           /\ \E p \in added : /\ r.journal_postings[p].allocation_id = from
                               /\ r.journal_postings[p].amount = -amount
                               /\ r.journal_postings[p].journal_id = j
           /\ \E p \in added : /\ r.journal_postings[p].allocation_id = to
                               /\ r.journal_postings[p].amount = amount
                               /\ r.journal_postings[p].journal_id = j
           /\ net_amount(r.journal_postings, j) = 0
           /\ eff(r.journal_postings)[from] = eff(journal_postings)[from] - amount
           /\ eff(r.journal_postings)[to] = eff(journal_postings)[to] + amount
           /\ SumOver(eff(r.journal_postings), DOMAIN allocations)
                 = SumOver(eff(journal_postings), DOMAIN allocations)

C16_DeleteGuard ==
    \A id \in DOMAIN categories :
        LET r == delete_category(Db, allocations, id)
            held == \E a \in DOMAIN allocations :
                       allocations[a].category_id \in Subtree(categories, id)
        IN IF held
           THEN /\ r.code = "allocations_present"
                /\ r.db.categories = categories
                /\ r.db.funding_sources = funding_sources
           ELSE /\ r.code = "ok"
                /\ DOMAIN r.db.categories = DOMAIN categories \ Subtree(categories, id)

\* delete_category of a parent has just been refused because one of its
\* descendants holds an allocation.
C16_Witness ==
    /\ last = [op |-> "delete_category", code |-> "allocations_present"]
    /\ \E a \in DOMAIN allocations, c \in DOMAIN categories :
          /\ allocations[a].category_id \in Subtree(categories, c) \ {c}
          /\ \A b \in DOMAIN allocations : allocations[b].category_id # c

\* C17: whenever a category loses its last child, because delete_category
\* removed the child or update_category gave the child another parent, the
\* committed state shows that category with is_leaf = true, amount_leaf = 0
\* and rollup_amount = 0.
C17_ChildlessParentIsZeroLeaf ==
    [][\A P \in DOMAIN categories \cap DOMAIN categories' :
          (/\ last'.op \in {"delete_category", "update_category"}
           /\ HasChild(categories, P)
           /\ ~HasChild(categories', P))
          => /\ categories'[P].is_leaf
             /\ categories'[P].amount_leaf = Some(0)
             /\ categories'[P].rollup_amount = Some(0)]_vars

C19_ReconcileRestoresInvariants ==
    [][(last'.op = "reconcile" /\ last'.code = "ok") =>
          /\ \A c \in DOMAIN categories' :
                /\ categories'[c].is_leaf <=> ~HasChild(categories', c)
                /\ HasChild(categories', c) => categories'[c].amount_leaf = NULL
                /\ categories'[c].rollup_amount
                      = Some(LeafSumOfSubtree(categories', c))
          /\ \A b \in DOMAIN funding_sources' :
                LET cache == funding_sources'[b].budget_amount_cache IN
                IF funding_sources'[b].is_cost_center THEN cache = NULL
                ELSE \/ cache = Some(LeafSumOfBudget(categories', b))
                     \/ /\ cache = NULL
                        /\ \A c \in DOMAIN categories' :
                              categories'[c].budget_id # b]_vars

C21_DirectJournalBalanced ==
    [][(last'.op = "sql_insert_journal" /\ last'.code = "ok") =>
          \A j \in DOMAIN journal_entries' \ DOMAIN journal_entries :
              Abs(net_amount(journal_postings', j)) < ZERO_TOLERANCE]_vars

\* C22: create_entry with a list of allocations whose amounts differ in total
\* from the entry amount is rejected and stores neither the entry nor an
\* allocation; when the amounts match, the entry and all its allocations
\* are stored together.
C22_CreateEntryWithAllocations ==
    \A amount \in 1..MaxAmount,
       allocation_amounts \in {<<1>>, <<2>>, <<1, 1>>, <<1, 0>>} :
        LET r == create_entry(entries, amount, allocation_amounts)
            total == SumOver(allocation_amounts, DOMAIN allocation_amounts)
        IN IF total # amount
           THEN r.code # "ok" /\ r.entries = entries
           ELSE r.code = "ok" /\ NextId(entries) \in DOMAIN r.entries

\* C23: create_category with a parent_id that does not exist, or whose
\* category has another budget_id or project than the new category, fails
\* with invalid_parent, creates no category and does not change the parent.
C23_InvalidParentRejected ==
    \A p \in ProjectIds, b \in BudgetIds, parent \in CatIds,
       leaf \in BOOLEAN, amt \in AmountOpt, insert_first \in BOOLEAN :
        LET r == create_category(Db, p, b, parent, leaf, amt, insert_first) IN
        (\/ parent \notin DOMAIN categories
         \/ categories[parent].budget_id # b
         \/ categories[parent].project_id # p)
        => /\ r.code = "invalid_parent"
           /\ r.db.categories = categories
           /\ r.db.funding_sources = funding_sources

\* A create_category has just been refused with invalid_parent although a
\* category that could be a parent exists, in a state with two budgets.
C23_Witness ==
    /\ last = [op |-> "create_category", code |-> "invalid_parent"]
    /\ DOMAIN categories # {}
    /\ Cardinality(DOMAIN funding_sources) = 2
    /\ NextId(categories) <= limits.cats

\* C24: a leaf category created with no amount under a parent that already
\* has at least one child gets amount_leaf = 0, and the creation leaves the
\* parent's rollup_amount as it was.
C24_LaterSiblingDefaultsToZero ==
    \A P \in DOMAIN categories, insert_first \in BOOLEAN :
        LET child == NextId(categories)
            r == create_category(Db, categories[P].project_id,
                                 categories[P].budget_id, P, TRUE, NULL, insert_first)
        IN HasChild(categories, P)
           => /\ r.code = "ok"
              /\ r.db.categories[child].parent_id = P
              /\ r.db.categories[child].amount_leaf = Some(0)
              /\ r.db.categories[P].rollup_amount = categories[P].rollup_amount

\* C25: _create_journal rejects a posting list that holds a triple-form
\* posting whose category does not exist, or whose category has another
\* budget_id or project than the posting names; no journal entry and no
\* posting is stored.
C25_TripleScopeChecked ==
    \A b \in BudgetIds, p \in ProjectIds, c \in 1..MaxScopedCats, v \in {-1, 1} :
        LET bad == [allocation_id |-> 0, budget_id |-> b, item_project_id |-> p,
                    category_id |-> c, amount |-> v]
            others == {o \in PostingInputs : o.amount = -v}
            lists == {<<bad>>} \cup {<<bad, o>> : o \in others}
                               \cup {<<o, bad>> : o \in others}
        IN (\/ c \notin DOMAIN categories
            \/ categories[c].budget_id # b
            \/ categories[c].project_id # p)
           => \A postings \in lists :
                 LET r == _create_journal(categories, allocations, journal_entries,
                                          journal_postings, "CORRECTION", postings)
                 IN /\ r.code # "ok"
                    /\ r.journal_entries = journal_entries
                    /\ r.journal_postings = journal_postings

\* A journal naming an existing category under the wrong budget has just
\* been refused.
C25_Witness ==
    /\ last = [op |-> "create_journal", code |-> "scope_mismatch"]
    /\ DOMAIN categories # {}
    /\ journal_entries = << >>
    /\ journal_postings = << >>

\* C26: update_category(is_leaf = true) on a category that has at least one
\* child fails with has_children and leaves the is_leaf and amount_leaf of
\* the category as they were.
C26_LeafWithChildrenRefused ==
    \A id \in DOMAIN categories, amt \in AmountOpt :
        LET r == update_category(Db, allocations, id, 0, 0, 0, Some(TRUE), amt, FALSE)
        IN HasChild(categories, id)
           => /\ r.code = "has_children"
              /\ r.db.categories[id].is_leaf = categories[id].is_leaf
              /\ r.db.categories[id].amount_leaf = categories[id].amount_leaf

\* C27: update_budget(is_cost_center = false) on a cost-center budget that
\* has no leaf category with a non-null amount_leaf fails with
\* missing_leaf_amounts and leaves every field of the budget as it was:
\* is_cost_center stays true, and a name, owner, closure_date or description
\* passed in the same call is not applied.
C27_UnsetCostCenterNeedsLeafAmounts ==
    \A b \in DOMAIN funding_sources, rename \in BOOLEAN :
        LET r == update_budget(funding_sources, categories, b, Some(FALSE), rename)
        IN (/\ funding_sources[b].is_cost_center
            /\ ~\E c \in DOMAIN categories :
                   /\ categories[c].budget_id = b
                   /\ ~HasChild(categories, c)
                   /\ categories[c].amount_leaf # NULL)
           => /\ r.code = "missing_leaf_amounts"
              /\ r.funding_sources = funding_sources
              /\ ~r.applied

\* An update_budget has just been refused with missing_leaf_amounts on a
\* cost-center budget that has a leaf category without amount.
C27_Witness ==
    /\ last = [op |-> "update_budget", code |-> "missing_leaf_amounts"]
    /\ \E b \in DOMAIN funding_sources, c \in DOMAIN categories :
          /\ funding_sources[b].is_cost_center
          /\ categories[c].budget_id = b
          /\ categories[c].is_leaf
          /\ categories[c].amount_leaf = NULL

\* C28: update_entry and delete_entry called for an existing entry always
\* fail with HTTP 409 (append-only) and leave the entries and allocations
\* tables as they were.
C28_EntryApiAppendOnly ==
    [][/\ \A eid \in DOMAIN entries :
             /\ update_entry(entries, eid) = "append_only"
             /\ delete_entry(entries, eid) = "append_only"
       /\ last'.op \in {"update_entry", "delete_entry"}
             => /\ entries' = entries
                /\ allocations' = allocations
                /\ last'.code \in {"append_only", "not_found"}]_vars

\* A delete_entry has just been refused for an entry that carries an
\* allocation.
C28_Witness ==
    /\ last = [op |-> "delete_entry", code |-> "append_only"]
    /\ \E a \in DOMAIN allocations : allocations[a].entry_id \in DOMAIN entries

\* C29: in every reachable state the category of every allocation is a leaf
\* (is_leaf = true and no child category) of the allocation's project, also
\* after create_category added a child under a category that already has
\* allocations.  Stated for databases that enforce foreign keys, where no
\* allocation can be inserted for a missing category (the case of C6).
C29_AllocationsOnLeaves ==
    foreign_keys =>
    \A a \in DOMAIN allocations :
        LET c == allocations[a].category_id IN
        c \in DOMAIN categories
        => /\ categories[c].is_leaf
           /\ ~HasChild(categories, c)
           /\ categories[c].project_id = allocations[a].item_project_id

\* C30: in every reachable state every category whose parent_id names a
\* category has the budget_id and the project of that parent, also after
\* update_category changed the scope of a subtree and after writes through
\* the /api/categories handlers.
C30_ChildSharesParentScope ==
    \A c \in DOMAIN categories :
        LET p == categories[c].parent_id IN
        p \in DOMAIN categories
        => /\ categories[c].budget_id = categories[p].budget_id
           /\ categories[c].project_id = categories[p].project_id

\* C31: the parent_id relation is acyclic in every reachable state, and a
\* request of update_category that names as new parent the category itself
\* or one of its descendants is answered with invalid_parent.
C31_CycleRejected ==
    /\ \A c \in DOMAIN categories : c \notin SubtreeFrom(categories, {c}, {})
    /\ \A id \in DOMAIN categories :
       \A P \in Subtree(categories, id) :
          update_category(Db, allocations, id, P, 0, 0, NULL, NULL, FALSE).code
              = "invalid_parent"

\* C32: a request of update_category that supplies no parent_id (only a
\* name or description, is_leaf or amount_leaf) leaves the parent_id of the
\* category as it was and is never answered with allocations_present.
C32_NoParentIdKeepsParent ==
    \A id \in DOMAIN categories :
    \A is_leaf \in BoolOpt, amount_leaf \in AmountOpt, rename \in BOOLEAN :
        LET r == update_category(Db, allocations, id, 0, 0, 0,
                                 is_leaf, amount_leaf, rename)
        IN /\ r.code # "allocations_present"
           /\ r.db.categories[id].parent_id = categories[id].parent_id

\* C33: whenever update_category answers not_found, invalid_parent,
\* allocations_present or has_children, the stored categories and funding
\* sources are exactly those before the call, also when the error comes
\* after the parent change of the same call was flushed.
C33_FailedUpdateChangesNothing ==
    \A id \in 1..limits.cats :
    \A q \in UpdateRequests(id) :
        LET r == update_category(Db, allocations, id, q.parent_id, q.project_id,
                                 q.budget_id, q.is_leaf, q.amount_leaf, q.rename)
        IN r.code \in {"not_found", "invalid_parent", "allocations_present",
                       "has_children"}
           => r.db = Db

\* Some request for an existing category gets its parent change flushed
\* (the stored rows differ from those before the call) and is then refused
\* with has_children.
C33_Witness ==
    \E id \in DOMAIN categories :
    \E q \in UpdateRequests(id) :
        LET c0 == categories[id]
            s1 == ParentChange(Db, allocations, id, q.parent_id,
                               c0.project_id, c0.budget_id)
        IN /\ q.project_id = 0 /\ q.budget_id = 0
           /\ s1.code = "ok"
           /\ s1.db # Db
           /\ update_category(Db, allocations, id, q.parent_id, 0, 0,
                              q.is_leaf, q.amount_leaf, q.rename).code
                  = "has_children"

\* C34: the leaf-state refresh of the former parent is committed with the
\* structural change: a committed update_category or delete_category that
\* starts from a state in which every category has is_leaf exactly when it
\* has no child ends in such a state.
C34_RefreshCommittedWithChange ==
    [][(/\ last'.op \in {"update_category", "delete_category"}
        /\ last'.code = "ok"
        /\ \A c \in DOMAIN categories :
              categories[c].is_leaf <=> ~HasChild(categories, c))
       => \A c \in DOMAIN categories' :
              categories'[c].is_leaf <=> ~HasChild(categories', c)]_vars

RECURSIVE AncestorChainUpTo(_, _, _)
\* The ids from the root ancestor of c down to c, following parent_id for
\* at most n steps.
AncestorChainUpTo(cs, c, n) ==
    IF n = 0 \/ cs[c].parent_id \notin DOMAIN cs THEN <<c>>
    ELSE Append(AncestorChainUpTo(cs, cs[c].parent_id, n - 1), c)

AncestorChain(cs, c) == AncestorChainUpTo(cs, c, Cardinality(DOMAIN cs))

C37_PathsKeptByService ==
    \A c \in DOMAIN categories :
        /\ categories[c].path_ids = Some(AncestorChain(categories, c))
        /\ categories[c].path_depth = Len(AncestorChain(categories, c)) - 1

\* The proper ancestors of c.
Ancestors(cs, c) ==
    {AncestorChain(cs, c)[i] : i \in 1..Len(AncestorChain(cs, c))} \ {c}

\* C38: a delete_category that succeeds removes exactly one category c and
\* its descendants; no remaining category has a removed category as parent,
\* and no remaining category changes except the former ancestors of c in
\* their is_leaf, amount_leaf and rollup_amount.
C38_DeleteRemovesExactlySubtree ==
    [][(last'.op = "delete_category" /\ last'.code = "ok")
       => \E id \in DOMAIN categories :
            LET S == Subtree(categories, id) IN
            /\ DOMAIN categories' = DOMAIN categories \ S
            /\ \A x \in DOMAIN categories' :
                  /\ categories'[x].parent_id \notin S
                  /\ IF x \in Ancestors(categories, id)
                     THEN categories'[x] =
                             [categories[x] EXCEPT
                                 !.is_leaf = categories'[x].is_leaf,
                                 !.amount_leaf = categories'[x].amount_leaf,
                                 !.rollup_amount = categories'[x].rollup_amount]
                     ELSE categories'[x] = categories[x]]_vars

\* C39: for a category and a new parent outside its own subtree (or none),
\* can_move_category answers can_move = true exactly when update_category
\* with that parent_id succeeds, and a negative answer names the cause of
\* the failure of update_category: allocations_present for
\* allocations_present, parent_not_found and parent_scope_mismatch for
\* invalid_parent.
C39_CanMoveAgreesWithUpdate ==
    \A id \in DOMAIN categories :
    \A P \in ({0} \cup 1..limits.cats) \ Subtree(categories, id) :
        LET m == can_move_category(categories, allocations, id, P)
            u == update_category(Db, allocations, id, P, 0, 0, NULL, NULL, FALSE).code
        IN /\ m.code = "ok"
           /\ m.can_move <=> u = "ok"
           /\ m.reason = "allocations_present" => u = "allocations_present"
           /\ m.reason \in {"parent_not_found", "parent_scope_mismatch"}
                 => u = "invalid_parent"

=============================================================================
